---- MODULE Spec2Model ----
(***************************************************************************)
(* Model of nwprog's asynchronous TCP connector (src/common/tcp_client.c)  *)
(* and of the server-side response state machine (src/server/server.c).    *)
(*                                                                         *)
(* The connector is modelled statement by statement: tcp_connect walks the *)
(* candidate list and calls tcp_connect_async once per candidate; the      *)
(* results of the system calls and of the reactor (socket, sock_nonblocking*)
(* event_create, sock_connect, event_yield, sock_error) are chosen by the  *)
(* environment.                                                            *)
(*                                                                         *)
(* The server is modelled as one call of server_client on an accepted      *)
(* connection: the request handler is any sequence of server_response*     *)
(* calls followed by a return value, and every http_write_* call may fail. *)
(***************************************************************************)
EXTENDS Integers, Sequences, FiniteSets, TLC

\* ------------------------------------------------------------------ bounds
\* largest candidate list getaddrinfo() returns
MaxAddrs == 3

\* largest number of server_response* calls a request handler makes
MaxCalls == 3

\* largest number of server_add_handler calls
MaxHandlers == 2

\* the longest request body declared or sent, in bytes
MaxBody == 3

\* the size of the buffer http_read_file reads into, in bytes
ReadBufSize == 2

\* ------------------------------------------------------------- variables
VARIABLES
    event_main,   \* tcp_connect's event_main argument: TRUE iff a reactor is supplied
    addrs,        \* number of candidates in the resolved list (addrs of tcp_connect)
    tc,           \* frame of tcp_connect: [pc, gai, addr, err, ret]
    ta,           \* frame of the running tcp_connect_async: locals plus a trace of the attempt
    sockp,        \* the caller's *sockp: << >> while never written, <<fd>> once written
    openSocks,    \* descriptors returned by socket() and not yet closed
    liveEvents,   \* events created by event_create and not yet destroyed
    destroyed,    \* per candidate: number of event_destroy calls on its event
    started,      \* candidates in the order tcp_connect_async was called on them
    attempts,     \* the frames of the tcp_connect_async calls that have returned, in order
    client,       \* struct server_client, the "Sent" fields: [status, header, headers, body]
    wire,         \* the lines written to the connection through the http_write_* functions
    sc,           \* frame of server_client: [pc, err, lerr (err at the error label), status, handler, ret,
                  \*   req (what server_request read and returned), lookup (what the lookup returned)]
    calls,        \* the calls of the server_response* functions and of the static senders on the connection
    handlers,     \* server->handlers: the TAILQ of [method, path, handler] items
    registered,   \* the successful server_add_handler calls, in call order
    request,      \* struct server_client, the "Request" fields: the two buffers and the content length
    st,           \* frame of server_static_request: [pc, ret, fd, header, value, lookup, hdrs, opened, closed]
    sr,           \* frame of server_run: [pc, sock, http (client.http), err, ret, accepted (the descriptor
                  \*   accept returned), open (accepted descriptors not closed), engines (http
                  \*   instances not destroyed), closes, destroys]
    rd            \* the body being read by http_read_file: [pc, declared, remaining, avail (bytes the
                  \*   stream holds before it closes), delivered, reads (the http_read_raw calls), ret]

tcpVars == <<event_main, addrs, tc, ta, sockp, openSocks, liveEvents, destroyed, started, attempts>>

rtVars == <<handlers, registered, request>>

hdVars == <<st, rd, sr>>

srvVars == <<client, wire, sc, calls, rtVars, hdVars>>

vars == <<tcpVars, srvVars>>

\* ---------------------------------------------------------------- helpers
\* a NULL pointer / an int never assigned
NULL == << >>

\* int err = 1 before the loop: "pre-set err in case of empty addrs"
PresetErrZero == 1 - 1
PresetErr == 1

\* values sock_error() reports: a getsockopt failure, no error, ECONNREFUSED
SockErrors == {-1, 0, 111}

\* values sock_connect() reports: failure, connected, in progress
ConnectResults == {-1, 0, 1}

\* socket() returns the lowest descriptor that is not open
LowestFree(S) == CHOOSE n \in 1..(Cardinality(S) + 1) :
                    /\ n \notin S
                    /\ \A m \in 1..(n - 1) : m \in S

\* the idle frame: no tcp_connect_async call is active
IdleFrame == [pc |-> "idle", addr |-> 0, sock |-> NULL, event |-> NULL, err |-> 0,
              connect |-> NULL, yields |-> 0, mode |-> NULL, resumed |-> FALSE,
              soerr |-> NULL, connected |-> FALSE, evfail |-> FALSE, wrote |-> FALSE,
              ret |-> 0]

\* the frame at entry of tcp_connect_async(event_main, sockp, addr): event = NULL
EntryFrame(a) == [IdleFrame EXCEPT !.pc = "socket", !.addr = a]

\* if (err > 0 && event): the attempt waits for the connect to complete
ShouldYieldAlways(e, ev) == e # 0 /\ ev # NULL
ShouldYield(e, ev) == e > 0 /\ ev # NULL

\* if ((err = tcp_connect_async(...))) continue; ... break;
AfterAttemptNoBreak(e) == "continue"
AfterAttemptAbort(e) == "break"
AfterAttempt(e) == IF e # 0 THEN "continue" ELSE "break"

\* addr = addr->ai_next
NextAddrStay(a) == a
NextAddrSkip(a) == a + 2
NextAddr(a) == a + 1

\* error: if (event) event_destroy(event);
EventsAfterCleanupLeak(evs, ev) == evs
EventsAfterCleanup(evs, ev) == IF ev # NULL THEN evs \ {ev[1]} ELSE evs

\* ------------------------------------------------------------------- Init
InitTcp ==
    /\ event_main = FALSE
    /\ addrs = 0
    /\ tc = [pc |-> "getaddrinfo", gai |-> NULL, addr |-> 1, err |-> 0, ret |-> 0]
    /\ ta = IdleFrame
    /\ sockp = NULL
    /\ openSocks = {}
    /\ liveEvents = {}
    /\ destroyed = [a \in 1..MaxAddrs |-> 0]
    /\ started = << >>
    /\ attempts = << >>

\* ------------------------------------------------------------ tcp_connect
\* tcp_connect is called with or without a reactor; getaddrinfo() fails
\* (err = EAI_NONAME, return -1) or yields a list of n candidates; err = 1
tcp_connect_getaddrinfo ==
    /\ tc.pc = "getaddrinfo"
    /\ event_main' \in BOOLEAN
    /\ \/ /\ tc' = [tc EXCEPT !.pc = "done", !.gai = <<-2>>, !.err = -2, !.ret = -1]
          /\ UNCHANGED addrs
       \/ \E n \in 0..MaxAddrs :
            /\ addrs' = n
            /\ tc' = [tc EXCEPT !.pc = "loop", !.gai = <<0>>, !.addr = 1, !.err = PresetErr]
    /\ UNCHANGED <<ta, sockp, openSocks, liveEvents, destroyed, started, attempts>>
    /\ UNCHANGED srvVars

\* for (addr = addrs; addr; ...): call tcp_connect_async on addr, or leave the loop
tcp_connect_loop ==
    /\ tc.pc = "loop"
    /\ IF tc.addr <= addrs
         THEN /\ tc' = [tc EXCEPT !.pc = "call"]
              /\ ta' = EntryFrame(tc.addr)
              /\ started' = Append(started, tc.addr)
         ELSE /\ tc' = [tc EXCEPT !.pc = "return"]
              /\ UNCHANGED <<ta, started>>
    /\ UNCHANGED <<event_main, addrs, sockp, openSocks, liveEvents, destroyed, attempts>>
    /\ UNCHANGED srvVars

\* err = tcp_connect_async(...); non-zero: continue with ai_next, zero: break
tcp_connect_result ==
    /\ tc.pc = "call"
    /\ ta.pc = "return"
    /\ attempts' = Append(attempts, ta)
    /\ ta' = IdleFrame
    /\ IF AfterAttempt(ta.ret) = "continue"
         THEN tc' = [tc EXCEPT !.pc = "loop", !.err = ta.ret, !.addr = NextAddr(tc.addr)]
         ELSE tc' = [tc EXCEPT !.pc = "return", !.err = ta.ret]
    /\ UNCHANGED <<event_main, addrs, sockp, openSocks, liveEvents, destroyed, started>>
    /\ UNCHANGED srvVars

\* freeaddrinfo(addrs); return err;
tcp_connect_return ==
    /\ tc.pc = "return"
    /\ tc' = [tc EXCEPT !.pc = "done", !.ret = tc.err]
    /\ UNCHANGED <<event_main, addrs, ta, sockp, openSocks, liveEvents, destroyed, started, attempts>>
    /\ UNCHANGED srvVars

\* ------------------------------------------------------ tcp_connect_async
\* sock = socket(...): a new descriptor, or failure (return 1)
async_socket ==
    /\ ta.pc = "socket"
    /\ \/ /\ ta' = [ta EXCEPT !.pc = "return", !.ret = 1]
          /\ UNCHANGED openSocks
       \/ LET fd == LowestFree(openSocks) IN
            /\ openSocks' = openSocks \cup {fd}
            /\ ta' = [ta EXCEPT !.sock = <<fd>>,
                                !.pc = IF event_main THEN "nonblocking" ELSE "connect"]
    /\ UNCHANGED <<event_main, addrs, tc, sockp, liveEvents, destroyed, started, attempts>>
    /\ UNCHANGED srvVars

\* if (event_main) { if ((err = sock_nonblocking(sock))) return err;
async_nonblocking ==
    /\ ta.pc = "nonblocking"
    /\ \/ ta' = [ta EXCEPT !.pc = "event_create"]
       \/ ta' = [ta EXCEPT !.pc = "return", !.err = -1, !.ret = -1]
    /\ UNCHANGED <<event_main, addrs, tc, sockp, openSocks, liveEvents, destroyed, started, attempts>>
    /\ UNCHANGED srvVars

\* if ((err = event_create(event_main, &event, sock))) return err; }
async_event_create ==
    /\ ta.pc = "event_create"
    /\ \/ /\ ta' = [ta EXCEPT !.pc = "connect", !.event = <<ta.addr>>]
          /\ liveEvents' = liveEvents \cup {ta.addr}
       \/ /\ ta' = [ta EXCEPT !.pc = "return", !.err = -1, !.ret = -1, !.evfail = TRUE]
          /\ UNCHANGED liveEvents
    /\ UNCHANGED <<event_main, addrs, tc, sockp, openSocks, destroyed, started, attempts>>
    /\ UNCHANGED srvVars

\* err = sock_connect(sock, ...); then either yield, or go on to the check of err
async_connect ==
    /\ ta.pc = "connect"
    /\ \E r \in ConnectResults :
         ta' = [ta EXCEPT !.err = r, !.connect = <<r>>,
                          !.connected = (r = 0),
                          !.pc = IF ShouldYield(r, ta.event) THEN "yield" ELSE "check"]
    /\ UNCHANGED <<event_main, addrs, tc, sockp, openSocks, liveEvents, destroyed, started, attempts>>
    /\ UNCHANGED srvVars

\* event_yield(event, EVENT_WRITE, NULL): fails at once (goto error), or suspends the task
async_yield ==
    /\ ta.pc = "yield"
    /\ \/ ta' = [ta EXCEPT !.pc = "error", !.mode = <<"EVENT_WRITE">>]
       \/ ta' = [ta EXCEPT !.pc = "suspended", !.mode = <<"EVENT_WRITE">>,
                           !.yields = ta.yields + 1]
    /\ UNCHANGED <<event_main, addrs, tc, sockp, openSocks, liveEvents, destroyed, started, attempts>>
    /\ UNCHANGED srvVars

\* the reactor resumes the suspended task: event_yield returns 0, or an error (goto error)
event_resume ==
    /\ ta.pc = "suspended"
    /\ \/ ta' = [ta EXCEPT !.pc = "sock_error", !.resumed = TRUE]
       \/ ta' = [ta EXCEPT !.pc = "error"]
    /\ UNCHANGED <<event_main, addrs, tc, sockp, openSocks, liveEvents, destroyed, started, attempts>>
    /\ UNCHANGED srvVars

\* err = sock_error(sock);
async_sock_error ==
    /\ ta.pc = "sock_error"
    /\ \E e \in SockErrors :
         ta' = [ta EXCEPT !.err = e, !.soerr = <<e>>, !.connected = (e = 0), !.pc = "check"]
    /\ UNCHANGED <<event_main, addrs, tc, sockp, openSocks, liveEvents, destroyed, started, attempts>>
    /\ UNCHANGED srvVars

\* if (err) goto error; *sockp = sock;
async_check ==
    /\ ta.pc = "check"
    /\ IF ta.err # 0
         THEN /\ ta' = [ta EXCEPT !.pc = "error"]
              /\ UNCHANGED sockp
         ELSE /\ ta' = [ta EXCEPT !.pc = "error", !.wrote = TRUE]
              /\ sockp' = ta.sock
    /\ UNCHANGED <<event_main, addrs, tc, openSocks, liveEvents, destroyed, started, attempts>>
    /\ UNCHANGED srvVars

\* error: if (event) event_destroy(event); if (err) close(sock); return err;
async_cleanup ==
    /\ ta.pc = "error"
    /\ liveEvents' = EventsAfterCleanup(liveEvents, ta.event)
    /\ destroyed' = [a \in DOMAIN destroyed |->
                        IF a \in liveEvents \ liveEvents' THEN destroyed[a] + 1 ELSE destroyed[a]]
    /\ openSocks' = IF ta.err # 0 THEN openSocks \ {ta.sock[1]} ELSE openSocks
    /\ ta' = [ta EXCEPT !.pc = "return", !.ret = ta.err]
    /\ UNCHANGED <<event_main, addrs, tc, sockp, started, attempts>>
    /\ UNCHANGED srvVars

\* ------------------------------------------------- server: response state
\* enum http_status: HTTP_INTERNAL_SERVER_ERROR
HTTP_INTERNAL_SERVER_ERROR == 500

\* statuses a request handler sends: HTTP_OK, HTTP_FOUND
HandlerStatuses == {200, 301}

\* values a request handler returns: internal error, success, a status to send
HandlerResults == {-1, 0, 404}

\* values http_read_request() returns: read error, success, HTTP_BAD_REQUEST
RequestResults == {-1, 0, 400}

\* values server_lookup_handler() returns: a handler was found, HTTP_NOT_FOUND
LookupResults == {0, 404}

\* one line (or the body) as written to the connection
Line(kind, arg) == [line |-> kind, arg |-> arg, name |-> "", value |-> << >>]

\* a header line "name: value" as written to the connection
HeaderLine(name, value) == [line |-> "header", arg |-> 0, name |-> name, value |-> value]

\* the outcome of a server_response* call: the client state, the wire and the return value
Result(c, w, r) == [client |-> c, wire |-> w, ret |-> r, ioerr |-> FALSE]

\* the outcome of a call whose http_write_* call failed: nothing was written, return -1
WriteFailed(c, w) == [client |-> c, wire |-> w, ret |-> -1, ioerr |-> TRUE]

\* struct server_client client = { };
InitClient == [status |-> 0, header |-> FALSE, headers |-> FALSE, body |-> FALSE]

\* server_response(client, status, reason); ok: http_write_response succeeds
server_responseNoGuard(c, w, status, ok) ==
    LET c1 == [c EXCEPT !.status = status] IN
    IF ok THEN Result(c1, Append(w, Line("status", status)), 0)
          ELSE WriteFailed(c1, w)
server_response(c, w, status, ok) ==
    IF c.status # 0
      THEN Result(c, w, -1)
      ELSE LET c1 == [c EXCEPT !.status = status] IN
           IF ok THEN Result(c1, Append(w, Line("status", status)), 0)
                 ELSE WriteFailed(c1, w)

\* server_response_header(client, name, fmt, ...); ok: http_write_headerv succeeds
server_response_header(c, w, name, value, ok) ==
    IF c.status = 0
      THEN Result(c, w, -1)
      ELSE IF c.headers
        THEN Result(c, w, -1)
        ELSE LET c1 == [c EXCEPT !.header = TRUE] IN
             IF ok THEN Result(c1, Append(w, HeaderLine(name, value)), 0)
                   ELSE WriteFailed(c1, w)

\* server_response_headers(client); ok: http_write_headers succeeds
server_response_headers(c, w, ok) ==
    LET c1 == [c EXCEPT !.headers = TRUE] IN
    IF ok THEN Result(c1, Append(w, Line("headers", 0)), 0)
          ELSE WriteFailed(c1, w)

\* server_response_file(client, content_length, file); ok1..ok3: the three writes succeed
server_response_file(c, w, ok1, ok2, ok3) ==
    LET r1 == server_response_header(c, w, "Content-Length", <<"%zu">>, ok1) IN
    IF r1.ret # 0 THEN r1
    ELSE LET r2 == server_response_headers(r1.client, r1.wire, ok2) IN
         IF r2.ret # 0 THEN r2
         ELSE IF r2.client.body THEN Result(r2.client, r2.wire, -1)
         ELSE LET c3 == [r2.client EXCEPT !.body = TRUE] IN
              IF ok3 THEN Result(c3, Append(r2.wire, Line("body", 0)), 0)
                     ELSE WriteFailed(c3, r2.wire)

\* the record of one call: who called, which function, client and wire before, the outcome
Call(by, op, r) == [by |-> by, op |-> op, pre |-> client, before |-> wire,
                    after |-> r.wire, ret |-> r.ret, ioerr |-> r.ioerr]

\* server_client: the status to send, computed from err and client->status
ResponseStatusNoDefault(err, sent) ==
    IF err < 0 THEN HTTP_INTERNAL_SERVER_ERROR
    ELSE IF err > 0 THEN err
    ELSE 0
ResponseStatus(err, sent) ==
    IF err < 0 THEN HTTP_INTERNAL_SERVER_ERROR
    ELSE IF err > 0 THEN err
    ELSE IF sent # 0 THEN 0
    ELSE 500

\* ------------------------------------------------------- server: C strings
\* a C string is the sequence of its characters before the terminating NUL
Repeat(c, n) == [i \in 1..n |-> c]

\* #define HTTP_METHOD_MAX, HTTP_PATH_MAX
HTTP_METHOD_MAX == 64
HTTP_PATH_MAX == 1024

\* the character at position i of a C string: past the end sits the NUL
CharAt(str, i) == IF i <= Len(str) THEN str[i] ELSE "NUL"

\* strcmp(a, b): 0 iff the strings are equal up to and including the NUL
strcmp(a, b) ==
    IF \A i \in 1..(Len(a) + 1) : CharAt(a, i) = CharAt(b, i) THEN 0 ELSE 1

\* strncmp(a, b, n): compares at most n characters and stops after a NUL
strncmp(a, b, n) ==
    LET last == IF n <= Len(a) /\ n <= Len(b) THEN n
                ELSE IF Len(a) <= Len(b) THEN Len(a) + 1 ELSE Len(b) + 1
        k == IF last < n THEN last ELSE n
    IN  IF \A i \in 1..k : CharAt(a, i) = CharAt(b, i) THEN 0 ELSE 1

\* a zeroed buffer, and the buffer after strncpy(buf, src, n): min(strlen, n)
\* characters are copied, the rest of the n bytes is padded with NUL
ZeroBuf == [str |-> << >>, nul |-> TRUE, written |-> 0]
strncpy(src, n) ==
    [str |-> IF Len(src) < n THEN src ELSE SubSeq(src, 1, n),
     nul |-> Len(src) < n,
     written |-> n]

\* struct server_client client = { }: the request fields
InitRequest == [method |-> ZeroBuf, path |-> ZeroBuf, content_length |-> 0]

\* the methods and paths of the request lines read
GET == <<"G", "E", "T">>
PUT == <<"P", "U", "T">>
RequestMethods == {GET, PUT, Repeat("M", HTTP_METHOD_MAX - 1), Repeat("M", HTTP_METHOD_MAX),
                   Repeat("M", HTTP_METHOD_MAX + 1)}
RequestPaths == {<<"/", "a">>, <<"/", "a", "b">>, <<"/", "b">>,
                 <<"/", "a", "/">>, <<"/", "t", ".", "t", "x", "t">>,
                 <<"/", ".", ".", "/", "w", "s", "/", "k">>, <<"/", ".", ".", "/", "e">>,
                 <<"/">> \o Repeat("p", HTTP_PATH_MAX - 2), <<"/">> \o Repeat("p", HTTP_PATH_MAX - 1)}

\* the methods and paths handlers are registered for (NULL: any)
HandlerMethods == {NULL, GET}
HandlerPaths == {NULL, <<"/", "a">>, <<"/", "a", "b">>}
HandlerNames == {"A", "B"}

\* server_request after http_read_request returned 0 with (method, path):
\* length checks and copies, in the order of the code
server_requestOffByOne(req, method, path) ==
    IF Len(method) > HTTP_METHOD_MAX
      THEN [request |-> req, ret |-> 400]
      ELSE LET r1 == [req EXCEPT !.method = strncpy(method, HTTP_METHOD_MAX)] IN
           IF Len(path) > HTTP_PATH_MAX
             THEN [request |-> r1, ret |-> 400]
             ELSE [request |-> [r1 EXCEPT !.path = strncpy(path, HTTP_PATH_MAX)], ret |-> 0]
server_request(req, method, path) ==
    IF Len(method) >= HTTP_METHOD_MAX
      THEN [request |-> req, ret |-> 400]
      ELSE LET r1 == [req EXCEPT !.method = strncpy(method, HTTP_METHOD_MAX)] IN
           IF Len(path) >= HTTP_PATH_MAX
             THEN [request |-> r1, ret |-> 400]
             ELSE [request |-> [r1 EXCEPT !.path = strncpy(path, HTTP_PATH_MAX)], ret |-> 0]

\* server_lookup_handler: TAILQ_FOREACH from item i on; the first item that is
\* not skipped is returned, 404 at the end of the list
RECURSIVE LookupFrom(_, _, _, _)
LookupFrom(hs, i, method, path) ==
    IF i > Len(hs) THEN [ret |-> 404, handler |-> NULL]
    ELSE IF hs[i].method # NULL /\ strcmp(hs[i].method, method) # 0
      THEN LookupFrom(hs, i + 1, method, path)
    ELSE IF hs[i].path # NULL /\ strncmp(hs[i].path, path, Len(hs[i].path)) # 0
      THEN LookupFrom(hs, i + 1, method, path)
    ELSE [ret |-> 0, handler |-> <<hs[i].handler>>]

\* the same walk keeping the last item that is not skipped
RECURSIVE LookupLastFrom(_, _, _, _)
LookupLastFrom(hs, i, method, path) ==
    IF i < 1 THEN [ret |-> 404, handler |-> NULL]
    ELSE IF hs[i].method # NULL /\ strcmp(hs[i].method, method) # 0
      THEN LookupLastFrom(hs, i - 1, method, path)
    ELSE IF hs[i].path # NULL /\ strncmp(hs[i].path, path, Len(hs[i].path)) # 0
      THEN LookupLastFrom(hs, i - 1, method, path)
    ELSE [ret |-> 0, handler |-> <<hs[i].handler>>]

server_lookup_handlerLast(hs, method, path) == LookupLastFrom(hs, Len(hs), method, path)
server_lookup_handler(hs, method, path) == LookupFrom(hs, 1, method, path)

\* ------------------------------------------------ reading request headers
\* the headers a handler may read before the end-of-headers line
MaxHeaders == 2

ContentLength == <<"C", "o", "n", "t", "e", "n", "t", "-", "L", "e", "n", "g", "t", "h">>

\* tolower() on the letters, every other character unchanged
UpperCase == <<"A", "B", "C", "D", "E", "F", "G", "H", "I", "J", "K", "L", "M",
               "N", "O", "P", "Q", "R", "S", "T", "U", "V", "W", "X", "Y", "Z">>
LowerCase == <<"a", "b", "c", "d", "e", "f", "g", "h", "i", "j", "k", "l", "m",
               "n", "o", "p", "q", "r", "s", "t", "u", "v", "w", "x", "y", "z">>
tolower(c) ==
    IF \E k \in 1..26 : UpperCase[k] = c
      THEN LowerCase[CHOOSE k \in 1..26 : UpperCase[k] = c]
      ELSE c

\* strcasecmp(a, b): 0 iff the strings are equal up to the case of their letters
strcasecmp(a, b) ==
    strcmp([i \in 1..Len(a) |-> tolower(a[i])], [i \in 1..Len(b) |-> tolower(b[i])])

\* isspace()
Space == {" ", "\t"}

\* the text without its leading and trailing whitespace
Trim(str) ==
    LET keep == {i \in 1..Len(str) : str[i] \notin Space} IN
    IF keep = {} THEN << >>
    ELSE SubSeq(str, CHOOSE i \in keep : \A j \in keep : i <= j,
                     CHOOSE i \in keep : \A j \in keep : j <= i)

\* the value of a run of decimal digits
Digits == <<"0", "1", "2", "3", "4", "5", "6", "7", "8", "9">>
DigitValue(c) == (CHOOSE k \in 1..10 : Digits[k] = c) - 1
RECURSIVE Decimal(_)
Decimal(str) ==
    IF str = << >> THEN 0
    ELSE 10 * Decimal(SubSeq(str, 1, Len(str) - 1)) + DigitValue(str[Len(str)])

\* sscanf(value, "%zu", &n): whitespace is skipped, then the longest run of
\* digits is converted; the count of conversions is 1 iff there is a digit
sscanf_zu(value) ==
    LET first == IF \E i \in 1..Len(value) : value[i] \notin Space
                   THEN CHOOSE i \in 1..Len(value) :
                          value[i] \notin Space /\ \A j \in 1..(i - 1) : value[j] \in Space
                   ELSE Len(value) + 1
        IsDigit(i) == i <= Len(value) /\ \E k \in 1..10 : Digits[k] = value[i]
        last == IF IsDigit(first)
                  THEN CHOOSE i \in first..Len(value) :
                         (\A j \in first..i : IsDigit(j)) /\ ~IsDigit(i + 1)
                  ELSE first - 1
    IN  IF IsDigit(first)
          THEN [count |-> 1, n |-> Decimal(SubSeq(value, first, last))]
          ELSE [count |-> 0, n |-> 0]

\* a name pointer handed out by http_read_header: the header line whose name
\* it points to, and the name
NameRef(line, name) == <<[line |-> line, name |-> name]>>

\* const char *header; an automatic variable that was never assigned holds
\* NULL or a pointer to whatever the stack held
StalePointer == NameRef(0, <<"?">>)
Indeterminate == {NULL, StalePointer}

\* the physical lines the stream may deliver in the header section
HeaderTexts ==
    {<< >>,
     <<"H", ":", " ", "x">>,
     ContentLength \o <<":", " ", "7">>,
     <<"c", "o", "n", "t", "e", "n", "t", "-", "l", "e", "n", "g", "t", "h", ":", "x">>,
     <<" ", "y", " ">>}

\* one read of a line: the stream fails, or delivers a line
HeaderInputs == {[ok |-> FALSE, text |-> << >>]} \cup {[ok |-> TRUE, text |-> t] : t \in HeaderTexts}

\* http_read_header(http, headerp, valuep); n is the number of the line read.
\* A failed read returns -1, a blank line 1; a line starting with whitespace
\* is a fold: *headerp is left as-is, *valuep is the trimmed text; any other
\* line is split at the first ':'
http_read_header(input, n, header, value) ==
    LET text == input.text
        colon == IF \E i \in 1..Len(text) : text[i] = ":"
                   THEN CHOOSE i \in 1..Len(text) : text[i] = ":" /\ \A j \in 1..(i - 1) : text[j] # ":"
                   ELSE 0
    IN  IF ~input.ok THEN [ret |-> -1, header |-> header, value |-> value]
        ELSE IF text = << >> THEN [ret |-> 1, header |-> header, value |-> value]
        ELSE IF text[1] \in Space
          THEN [ret |-> 0, header |-> header, value |-> Trim(text)]
        ELSE IF colon = 0 THEN [ret |-> -1, header |-> header, value |-> value]
        ELSE [ret |-> 0, header |-> NameRef(n, SubSeq(text, 1, colon - 1)),
              value |-> Trim(SubSeq(text, colon + 1, Len(text)))]

\* the outcome of server_request_header: the return value, *namep and *valuep,
\* the request fields, and whether the process died on a bad pointer
HeaderResult(read, ret, header, value, req, fault) ==
    [read |-> read, ret |-> ret, header |-> header, value |-> value, request |-> req, fault |-> fault]

\* server_request_header(client, namep, valuep); fault: reading through a
\* stale *namep faults
server_request_header(req, input, n, header, value, fault) ==
    LET h == http_read_header(input, n, header, value) IN
    IF h.ret < 0 THEN HeaderResult(h.ret, h.ret, h.header, h.value, req, FALSE)
    ELSE IF h.ret # 0 THEN HeaderResult(h.ret, 1, h.header, h.value, req, FALSE)
    ELSE IF h.header = NULL \/ (h.header = StalePointer /\ fault)
      THEN HeaderResult(h.ret, 0, h.header, h.value, req, TRUE)
    ELSE IF strcasecmp(h.header[1].name, ContentLength) = 0
      THEN LET n1 == sscanf_zu(h.value) IN
           IF n1.count # 1
             THEN HeaderResult(h.ret, 400, h.header, h.value, req, FALSE)
             ELSE HeaderResult(h.ret, 0, h.header, h.value, [req EXCEPT !.content_length = n1.n], FALSE)
    ELSE HeaderResult(h.ret, 0, h.header, h.value, req, FALSE)

\* server_static_request before it is called
IdleStatic == [pc |-> "idle", ret |-> 0, fd |-> NULL, header |-> NULL, value |-> NULL,
               lookup |-> NULL, hdrs |-> << >>, opened |-> 0, closed |-> 0]

\* no request body is being read
IdleReader == [pc |-> "idle", declared |-> FALSE, remaining |-> 0, avail |-> 0, delivered |-> 0,
               reads |-> << >>, ret |-> 0]

\* ------------------------------------------------ reading the request body
Min(a, b) == IF a < b THEN a ELSE b

\* the outcome of one http_read_raw call: the return value, the bytes stored
\* (*lenp on return), and the reader afterwards
ReadResult(ret, got, r) == [ret |-> ret, got |-> got, rd |-> r]

\* http_read_raw(http, buf, &len) with *lenp = size: a failed read returns -1;
\* with the declared length used up, or the stream closed, it returns 1;
\* otherwise got bytes are stored, at most size and at most what remains
http_read_raw(r, size, got, fail) ==
    LET limit == IF r.declared THEN Min(size, r.remaining) ELSE size
        n == Min(got, Min(limit, r.avail))
        ret == IF fail THEN -1
               ELSE IF (r.declared /\ r.remaining = 0) \/ r.avail = 0 THEN 1
               ELSE 0
        taken == IF ret = 0 THEN n ELSE 0
        entry == [size |-> size, declared |-> r.declared, remaining |-> r.remaining,
                  avail |-> r.avail, fail |-> fail, got |-> taken, ret |-> ret]
    IN  ReadResult(ret, taken,
                   [r EXCEPT !.remaining = IF r.declared THEN @ - taken ELSE @,
                             !.avail = @ - taken,
                             !.reads = Append(@, entry)])

\* if (!client->request_content_length) return 411;
NoLengthGivenNever(req) == FALSE
NoLengthGiven(req) == req.content_length = 0

\* ------------------------------------------------ static: the file system
\* ss->root of the static handler, an absolute canonical directory
StaticRoot == <<"/", "w">>

\* char path[PATH_MAX]
PATH_MAX == 4096

\* the files of the machine, by canonical path: the served root /w holds the
\* directory a (with the files c and .h), the regular files ab and t.txt and
\* the fifo b; next to it sit the directory /ws with the file k, and the file /e
FsEntries ==
    {[path |-> <<"/">>, type |-> "dir"],
     [path |-> <<"/", "w">>, type |-> "dir"],
     [path |-> <<"/", "w", "/", "a">>, type |-> "dir"],
     [path |-> <<"/", "w", "/", "a", "/", "c">>, type |-> "file"],
     [path |-> <<"/", "w", "/", "a", "/", ".", "h">>, type |-> "file"],
     [path |-> <<"/", "w", "/", "a", "b">>, type |-> "file"],
     [path |-> <<"/", "w", "/", "t", ".", "t", "x", "t">>, type |-> "file"],
     [path |-> <<"/", "w", "/", "b">>, type |-> "fifo"],
     [path |-> <<"/", "w", "s">>, type |-> "dir"],
     [path |-> <<"/", "w", "s", "/", "k">>, type |-> "file"],
     [path |-> <<"/", "e">>, type |-> "file"]}

\* st_mode & S_IFMT of a canonical path, "none" when nothing is there
FsType(p) ==
    IF \E e \in FsEntries : e.path = p
      THEN (CHOOSE e \in FsEntries : e.path = p).type
      ELSE "none"

\* the components of an absolute path: the texts after each '/'
Slashes(str) == {i \in 1..Len(str) : str[i] = "/"}
NthSlash(str, j) ==
    CHOOSE p \in Slashes(str) : Cardinality({q \in Slashes(str) : q < p}) = j - 1
EndOfComponent(str, p) ==
    IF \E q \in Slashes(str) : q > p
      THEN (CHOOSE q \in Slashes(str) : q > p /\ \A x \in Slashes(str) : x > p => q <= x) - 1
      ELSE Len(str)
Components(str) ==
    [j \in 1..Cardinality(Slashes(str)) |->
        LET p == NthSlash(str, j) IN SubSeq(str, p + 1, EndOfComponent(str, p))]

\* the parent directory of a canonical path, and the entry c inside directory p
Parent(p) ==
    LET k == CHOOSE q \in Slashes(p) : \A x \in Slashes(p) : x <= q IN
    IF k = 1 THEN <<"/">> ELSE SubSeq(p, 1, k - 1)
Child(p, c) == IF p = <<"/">> THEN p \o c ELSE p \o <<"/">> \o c

\* path resolution as open(2) and realpath(3) do it: "", "." and ".." are
\* resolved, every other component must exist in the directory reached
RECURSIVE Walk(_, _, _)
Walk(comps, i, cur) ==
    IF i > Len(comps) THEN [ok |-> TRUE, path |-> cur, errno |-> "0"]
    ELSE IF FsType(cur) # "dir" THEN [ok |-> FALSE, path |-> cur, errno |-> "ENOTDIR"]
    ELSE IF comps[i] = << >> \/ comps[i] = <<".">> THEN Walk(comps, i + 1, cur)
    ELSE IF comps[i] = <<".", ".">> THEN Walk(comps, i + 1, Parent(cur))
    ELSE IF Len(comps[i]) > 255 THEN [ok |-> FALSE, path |-> cur, errno |-> "ENAMETOOLONG"]
    ELSE IF FsType(Child(cur, comps[i])) = "none"
      THEN [ok |-> FALSE, path |-> cur, errno |-> "ENOENT"]
    ELSE Walk(comps, i + 1, Child(cur, comps[i]))

realpath(path) == Walk(Components(path), 1, <<"/">>)

\* struct server_static after server_static_create(&s, root): realpath = realpath(root, NULL)
StaticServer == [root |-> StaticRoot, realpath |-> realpath(StaticRoot).path]

\* server_static_error(): the status for the current errno
server_static_error(errno) ==
    CASE errno = "EACCES" -> 403
      [] errno = "EISDIR" -> 405
      [] errno = "ENAMETOOLONG" -> 414
      [] errno = "ENOENT" -> 404
      [] errno = "ENOTDIR" -> 404
      [] OTHER -> 500

\* fnmatch(glob, path, 0) for the globs "*.html" and "*.txt": the path ends in the suffix
EndsWith(str, suffix) ==
    /\ Len(suffix) <= Len(str)
    /\ SubSeq(str, Len(str) - Len(suffix) + 1, Len(str)) = suffix

\* server_static_lookup_mimetype: the first entry of server_static_mimetypes that matches
server_static_lookup_mimetype(path) ==
    IF EndsWith(path, <<".", "h", "t", "m", "l">>) THEN [ret |-> 0, mime |-> <<"text/html">>]
    ELSE IF EndsWith(path, <<".", "t", "x", "t">>) THEN [ret |-> 0, mime |-> <<"text/plain">>]
    ELSE [ret |-> 1, mime |-> NULL]

\* what the environment does to the system calls of one lookup: nothing, or
\* it fails open(), realpath() or fstat() on an existing target
LookupEnvs == {"ok", "open:EACCES", "open:EMFILE", "realpath:ENOMEM", "fstat:EIO"}

\* the outcome of server_static_lookup: the return value, the descriptor handed
\* to the caller (*fdp), the file type and mime type, the canonical target
\* found by realpath(), and whether a descriptor was opened / closed inside
LookupResult(ret, fd, type, mime, target, opened, closed) ==
    [ret |-> ret, fd |-> fd, type |-> type, mime |-> mime, target |-> target,
     opened |-> opened, closed |-> closed]

\* if (strncmp(ss->realpath, rootpath, strlen(ss->realpath)) != 0): outside of root
OutsideRoot(ss, rootpath) == strncmp(ss.realpath, rootpath, Len(ss.realpath)) # 0

\* server_static_lookup(ss, reqpath, &fd, &stat, &mime) on descriptor number fd
server_static_lookup(ss, reqpath, env, fd) ==
    IF CharAt(reqpath, 1) # "/"
      THEN LookupResult(400, NULL, "none", NULL, NULL, FALSE, FALSE)
    ELSE LET path == ss.root \o reqpath
             o == realpath(path)
         IN
      IF Len(path) >= PATH_MAX
        THEN LookupResult(414, NULL, "none", NULL, NULL, FALSE, FALSE)
      ELSE IF ~o.ok
        THEN LookupResult(server_static_error(o.errno), NULL, "none", NULL, NULL, FALSE, FALSE)
      ELSE IF env = "open:EACCES"
        THEN LookupResult(server_static_error("EACCES"), NULL, "none", NULL, NULL, FALSE, FALSE)
      ELSE IF env = "open:EMFILE"
        THEN LookupResult(server_static_error("EMFILE"), NULL, "none", NULL, NULL, FALSE, FALSE)
      ELSE IF env = "realpath:ENOMEM"
        THEN LookupResult(server_static_error("ENOMEM"), NULL, "none", NULL, NULL, TRUE, TRUE)
      ELSE IF OutsideRoot(ss, o.path)
        THEN LookupResult(403, NULL, "none", NULL, o.path, TRUE, TRUE)
      ELSE IF env = "fstat:EIO"
        THEN LookupResult(server_static_error("EIO"), NULL, "none", NULL, o.path, TRUE, TRUE)
      ELSE LookupResult(0, <<fd>>, FsType(o.path), server_static_lookup_mimetype(path).mime,
                        o.path, TRUE, FALSE)

\* ------------------------------------------------- static: the responses
\* the names readdir() returns for a directory
DirNames(dir) ==
    {SubSeq(e.path, Len(Child(dir, << >>)) + 1, Len(e.path)) :
        e \in {x \in FsEntries : x.path # <<"/">> /\ Parent(x.path) = dir}}

\* server_response_redirect(client, host, fmt, ...): a 301 with a Location header
server_response_redirect(c, w, location, ok) ==
    LET r1 == server_response(c, w, 301, ok.status) IN
    IF r1.ret # 0 THEN r1
    ELSE server_response_header(r1.client, r1.wire, "Location", location, ok.header)

\* server_response_print(client, fmt, ...): the first call ends the headers,
\* every call writes a piece of the body
server_response_print(c, w, ok) ==
    IF c.status = 0 THEN Result(c, w, -1)
    ELSE LET r1 == IF c.headers THEN Result(c, w, 0)
                   ELSE server_response_headers(c, w, ok.headers)
         IN  IF r1.ret # 0 THEN r1
             ELSE LET c2 == [r1.client EXCEPT !.body = TRUE] IN
                  IF ok.print THEN Result(c2, Append(r1.wire, Line("listing", 0)), 0)
                              ELSE WriteFailed(c2, r1.wire)

\* n calls of err |= server_response_print(...): the errors are not looked at
RECURSIVE PrintAll(_, _, _, _)
PrintAll(c, w, n, ok) ==
    IF n = 0 THEN Result(c, w, 0)
    ELSE LET r == server_response_print(c, w, ok) IN PrintAll(r.client, r.wire, n - 1, ok)

\* while ((d = readdir(dir))): one line per name not starting with '.', return on error
RECURSIVE PrintNames(_, _, _, _)
PrintNames(c, w, names, ok) ==
    IF names = {} THEN Result(c, w, 0)
    ELSE LET d == CHOOSE x \in names : TRUE IN
         IF d[1] = "." THEN PrintNames(c, w, names \ {d}, ok)
         ELSE LET r == server_response_print(c, w, ok) IN
              IF r.ret # 0 THEN r ELSE PrintNames(r.client, r.wire, names \ {d}, ok)

\* which writes of one response succeed
WriteOutcomes == [status : BOOLEAN, header : BOOLEAN, headers : BOOLEAN, print : BOOLEAN]

\* server_static_file(s, client, file, stat, mime)
server_static_file(c, w, mime, ok) ==
    LET r1 == server_response(c, w, 200, ok.status) IN
    IF r1.ret # 0 THEN r1
    ELSE LET r2 == IF mime # NULL
                     THEN server_response_header(r1.client, r1.wire, "Content-Type", mime, ok.header)
                     ELSE r1
         IN  IF r2.ret # 0 THEN r2
             ELSE server_response_file(r2.client, r2.wire, ok.header, ok.headers, ok.print)

\* if (path[strlen(path) - 1] != '/')
NeedsRedirectNever(path) == FALSE
NeedsRedirect(path) == CharAt(path, Len(path)) # "/"

\* server_static_dir(s, client, dir, path); names: what readdir(dir) returns
server_static_dir(c, w, path, names, ok) ==
    IF NeedsRedirect(path)
      THEN server_response_redirect(c, w, path \o <<"/">>, ok)
    ELSE LET r1 == server_response(c, w, 200, ok.status) IN
      IF r1.ret # 0 THEN r1
      ELSE LET r2 == server_response_header(r1.client, r1.wire, "Content-Type", <<"text/html">>, ok.header)
               r3 == PrintAll(r2.client, r2.wire, IF strcmp(path, <<"/">>) # 0 THEN 3 ELSE 2, ok)
               r4 == PrintNames(r3.client, r3.wire, names, ok)
           IN  IF r4.ret # 0 THEN r4
               ELSE LET r5 == PrintAll(r4.client, r4.wire, 2, ok) IN Result(r5.client, r5.wire, 0)

\* ------------------------------------------------------------ server_run
\* the descriptor accept() returns, and the instance http_create() creates
AcceptedSock == 4
Engine == 1

\* server_run on entry: struct server_client client = { }, nothing accepted
EntryRun == [pc |-> "accept", sock |-> NULL, http |-> NULL, err |-> 0, ret |-> NULL,
             accepted |-> NULL, open |-> {}, engines |-> {}, closes |-> 0, destroys |-> 0]

\* server_run while server_client runs: accept and http_create have succeeded
ServingRun == [EntryRun EXCEPT !.pc = "client", !.sock = <<AcceptedSock>>, !.http = <<Engine>>,
                               !.accepted = <<AcceptedSock>>, !.open = {AcceptedSock},
                               !.engines = {Engine}]

\* http_create(&http, sock) with the descriptors open before the call: on
\* failure (-1) *httpp stays NULL; the descriptor is not closed either way
http_create(open, ok) ==
    IF ok THEN [ret |-> 0, http |-> <<Engine>>, open |-> open]
          ELSE [ret |-> -1, http |-> NULL, open |-> open]

\* server_client before server_run calls it
IdleClient == [pc |-> "idle", err |-> 0, lerr |-> 0, status |-> 0, handler |-> NULL, ret |-> 0,
               req |-> NULL, lookup |-> NULL]

\* server_run: a zeroed struct server_client for the accepted connection
InitConnection ==
    /\ client = InitClient
    /\ wire = << >>
    /\ sc = [pc |-> "request", err |-> 0, lerr |-> 0, status |-> 0, handler |-> NULL, ret |-> 0,
             req |-> NULL, lookup |-> NULL]
    /\ calls = << >>
    /\ request = InitRequest
    /\ st = IdleStatic
    /\ rd = IdleReader
    /\ sr = ServingRun

\* server_create: TAILQ_INIT(&server->handlers)
InitServer ==
    /\ InitConnection
    /\ handlers = << >>
    /\ registered = << >>

\* server_static_add(s, server, "/a"): server_add_handler(server, "GET", path, &s->handler)
StaticHandlers == <<[method |-> GET, path |-> <<"/", "a">>, handler |-> "A"]>>

\* ---------------------------------------------------------- server_client
\* if ((err = server_request(client))) goto error;
server_client_request ==
    /\ sc.pc = "request"
    /\ \E r \in RequestResults :
         IF r # 0
           THEN /\ sc' = [sc EXCEPT !.err = r, !.pc = "response",
                                    !.req = <<[method |-> NULL, path |-> NULL, ret |-> r]>>]
                /\ UNCHANGED request
           ELSE \E method \in RequestMethods, path \in RequestPaths :
                  LET q == server_request(request, method, path) IN
                    /\ request' = q.request
                    /\ sc' = [sc EXCEPT !.err = q.ret,
                                        !.pc = IF q.ret # 0 THEN "response" ELSE "lookup",
                                        !.req = <<[method |-> method, path |-> path, ret |-> q.ret]>>]
    /\ UNCHANGED <<client, wire, calls, handlers, registered>>
    /\ UNCHANGED <<tcpVars, hdVars>>

\* err = server_lookup_handler(...): < 0 goto error, > 0 no handler, else call the handler
server_client_lookup ==
    /\ sc.pc = "lookup"
    /\ LET l == server_lookup_handler(handlers, request.method.str, request.path.str)
           r == l.ret
       IN  sc' = [sc EXCEPT !.err = r,
                            !.lookup = <<r>>,
                            !.pc = IF r < 0 THEN "response"
                                   ELSE IF r > 0 THEN "response" ELSE "handler",
                            !.handler = IF r = 0 THEN l.handler ELSE NULL]
    /\ UNCHANGED <<client, wire, calls>>
    /\ UNCHANGED <<tcpVars, rtVars, hdVars>>

\* server_add_handler(server, method, path, handler): calloc fails (return -1),
\* or the item is inserted at the tail of server->handlers
server_add_handler ==
    /\ sc.pc = "request"
    /\ Len(registered) < MaxHandlers
    /\ \/ UNCHANGED <<handlers, registered>>
       \/ \E method \in HandlerMethods, path \in HandlerPaths, handler \in HandlerNames :
            LET h == [method |-> method, path |-> path, handler |-> handler] IN
              /\ handlers' = Append(handlers, h)
              /\ registered' = Append(registered, h)
    /\ UNCHANGED <<client, wire, sc, calls, request>>
    /\ UNCHANGED <<tcpVars, hdVars>>

\* the handler calls server_response(client, status, reason)
handler_server_response ==
    /\ sc.pc = "handler"
    /\ Len(calls) < MaxCalls
    /\ \E status \in HandlerStatuses, ok \in BOOLEAN :
         LET r == server_response(client, wire, status, ok) IN
           /\ client' = r.client
           /\ wire' = r.wire
           /\ calls' = Append(calls, Call("handler", "server_response", r))
    /\ UNCHANGED sc
    /\ UNCHANGED <<tcpVars, rtVars, hdVars>>

\* the handler calls server_response_header(client, name, fmt, ...)
handler_server_response_header ==
    /\ sc.pc = "handler"
    /\ Len(calls) < MaxCalls
    /\ \E ok \in BOOLEAN :
         LET r == server_response_header(client, wire, "X-Header", <<"value">>, ok) IN
           /\ client' = r.client
           /\ wire' = r.wire
           /\ calls' = Append(calls, Call("handler", "server_response_header", r))
    /\ UNCHANGED sc
    /\ UNCHANGED <<tcpVars, rtVars, hdVars>>

\* the handler calls server_response_headers(client)
handler_server_response_headers ==
    /\ sc.pc = "handler"
    /\ Len(calls) < MaxCalls
    /\ \E ok \in BOOLEAN :
         LET r == server_response_headers(client, wire, ok) IN
           /\ client' = r.client
           /\ wire' = r.wire
           /\ calls' = Append(calls, Call("handler", "server_response_headers", r))
    /\ UNCHANGED sc
    /\ UNCHANGED <<tcpVars, rtVars, hdVars>>

\* the handler calls server_response_file(client, content_length, file)
handler_server_response_file ==
    /\ sc.pc = "handler"
    /\ Len(calls) < MaxCalls
    /\ \E ok1 \in BOOLEAN, ok2 \in BOOLEAN, ok3 \in BOOLEAN :
         LET r == server_response_file(client, wire, ok1, ok2, ok3) IN
           /\ client' = r.client
           /\ wire' = r.wire
           /\ calls' = Append(calls, Call("handler", "server_response_file", r))
    /\ UNCHANGED sc
    /\ UNCHANGED <<tcpVars, rtVars, hdVars>>

\* err = handler->request(handler, client, method, path) returns
handler_return ==
    /\ sc.pc = "handler"
    /\ \E r \in HandlerResults :
         sc' = [sc EXCEPT !.err = r, !.pc = "response"]
    /\ UNCHANGED <<client, wire, calls>>
    /\ UNCHANGED <<tcpVars, rtVars, hdVars>>

\* error: compute status; send it unless a status was already sent
server_client_response ==
    /\ sc.pc = "response"
    /\ LET status == ResponseStatus(sc.err, client.status) IN
         IF status # 0 /\ client.status # 0
           THEN /\ sc' = [sc EXCEPT !.status = status, !.lerr = sc.err, !.pc = "headers"]
                /\ UNCHANGED <<client, wire, calls>>
           ELSE IF status # 0
             THEN \E ok \in BOOLEAN :
                    LET r == server_response(client, wire, status, ok) IN
                      /\ client' = r.client
                      /\ wire' = r.wire
                      /\ calls' = Append(calls, Call("server_client", "server_response", r))
                      /\ sc' = [sc EXCEPT !.status = status, !.lerr = sc.err, !.pc = "headers",
                                          !.err = IF r.ret # 0 THEN -1 ELSE sc.err]
             ELSE /\ sc' = [sc EXCEPT !.status = status, !.lerr = sc.err, !.pc = "headers"]
                  /\ UNCHANGED <<client, wire, calls>>
    /\ UNCHANGED <<tcpVars, rtVars, hdVars>>

\* if (!client->headers) server_response_headers(client); return err;
server_client_headers ==
    /\ sc.pc = "headers"
    /\ IF ~client.headers
         THEN \E ok \in BOOLEAN :
                LET r == server_response_headers(client, wire, ok) IN
                  /\ client' = r.client
                  /\ wire' = r.wire
                  /\ calls' = Append(calls, Call("server_client", "server_response_headers", r))
                  /\ sc' = [sc EXCEPT !.pc = "done",
                                      !.err = IF r.ret # 0 THEN -1 ELSE sc.err,
                                      !.ret = IF r.ret # 0 THEN -1 ELSE sc.err]
         ELSE /\ sc' = [sc EXCEPT !.pc = "done", !.ret = sc.err]
              /\ UNCHANGED <<client, wire, calls>>
    /\ UNCHANGED <<tcpVars, rtVars, hdVars>>

\* ---------------------------------------------------- server_static_request
\* fd = -1; after fdopen / fdopendir succeeded: the stream owns the descriptor
FdAfterWrapKept(fd) == fd
FdAfterWrap(fd) == NULL

\* the handler is entered: fd = -1, ret = 0, header and value are not initialised
server_static_request ==
    /\ sc.pc = "handler"
    /\ st.pc = "idle"
    /\ \E h \in Indeterminate : st' = [st EXCEPT !.pc = "header", !.header = h]
    /\ UNCHANGED <<client, wire, sc, calls, rtVars, rd, sr>>
    /\ UNCHANGED tcpVars

\* while (!(ret = server_request_header(client, &header, &value))) { }
\* if (ret < 0) goto error;
static_request_header ==
    /\ st.pc = "header"
    /\ \E input \in HeaderInputs, fault \in BOOLEAN :
         /\ Len(st.hdrs) < MaxHeaders \/ input.text = << >>
         /\ LET r == server_request_header(request, input, Len(st.hdrs) + 1, st.header, st.value, fault) IN
              /\ request' = r.request
              /\ st' = [st EXCEPT !.header = r.header,
                                  !.value = r.value,
                                  !.ret = r.ret,
                                  !.hdrs = Append(@, [input |-> input, read |-> r.read, ret |-> r.ret, header |-> r.header,
                                                      value |-> r.value, fault |-> r.fault]),
                                  !.pc = IF r.fault THEN "fault"
                                         ELSE IF r.ret = 0 THEN "header"
                                         ELSE IF r.ret < 0 THEN "error" ELSE "lookup"]
    /\ UNCHANGED <<client, wire, sc, calls, handlers, registered, rd, sr>>
    /\ UNCHANGED tcpVars

\* if ((ret = server_static_lookup(ss, path, &fd, &stat, &mime))) return ret;
static_request_lookup ==
    /\ st.pc = "lookup"
    /\ \E env \in LookupEnvs :
         LET r == server_static_lookup(StaticServer, request.path.str, env, 3) IN
           st' = [st EXCEPT !.lookup = <<r>>,
                            !.ret = r.ret,
                            !.fd = r.fd,
                            !.opened = @ + (IF r.opened THEN 1 ELSE 0),
                            !.closed = @ + (IF r.closed THEN 1 ELSE 0),
                            !.pc = IF r.ret # 0 THEN "return" ELSE "check"]
    /\ UNCHANGED <<client, wire, sc, calls, rtVars, rd, sr>>
    /\ UNCHANGED tcpVars

\* S_IFREG: fdopen fails (ret = -1, goto error), or the file is sent and closed
static_request_file ==
    /\ st.pc = "check"
    /\ st.lookup[1].type = "file"
    /\ \/ /\ st' = [st EXCEPT !.ret = -1, !.pc = "error"]
          /\ UNCHANGED <<client, wire, calls>>
       \/ \E ok \in WriteOutcomes :
            LET r == server_static_file(client, wire, st.lookup[1].mime, ok) IN
              /\ client' = r.client
              /\ wire' = r.wire
              /\ calls' = Append(calls, Call("handler", "server_static_file", r))
              /\ st' = [st EXCEPT !.fd = FdAfterWrap(st.fd), !.ret = r.ret, !.closed = @ + 1,
                                  !.pc = "error"]
    /\ UNCHANGED <<sc, rtVars, rd, sr>>
    /\ UNCHANGED tcpVars

\* S_IFDIR: fdopendir fails (ret = -1, goto error), or the directory is sent and closed
static_request_dir ==
    /\ st.pc = "check"
    /\ st.lookup[1].type = "dir"
    /\ \/ /\ st' = [st EXCEPT !.ret = -1, !.pc = "error"]
          /\ UNCHANGED <<client, wire, calls>>
       \/ \E ok \in WriteOutcomes :
            LET r == server_static_dir(client, wire, request.path.str,
                                       DirNames(st.lookup[1].target), ok) IN
              /\ client' = r.client
              /\ wire' = r.wire
              /\ calls' = Append(calls, Call("handler", "server_static_dir", r))
              /\ st' = [st EXCEPT !.fd = FdAfterWrap(st.fd), !.ret = r.ret, !.closed = @ + 1,
                                  !.pc = "error"]
    /\ UNCHANGED <<sc, rtVars, rd, sr>>
    /\ UNCHANGED tcpVars

\* neither a file nor a directory: ret = 404; goto error;
static_request_other ==
    /\ st.pc = "check"
    /\ st.lookup[1].type \notin {"file", "dir"}
    /\ st' = [st EXCEPT !.ret = 404, !.pc = "error"]
    /\ UNCHANGED <<client, wire, sc, calls, rtVars, rd, sr>>
    /\ UNCHANGED tcpVars

\* error: if (fd >= 0) close(fd); return ret;  (and the return ret after a failed lookup)
static_request_return ==
    /\ st.pc \in {"error", "return"}
    /\ st' = [st EXCEPT !.pc = "done",
                        !.fd = IF st.pc = "error" THEN NULL ELSE @,
                        !.closed = IF st.pc = "error" /\ st.fd # NULL THEN @ + 1 ELSE @]
    /\ sc' = [sc EXCEPT !.err = st.ret, !.pc = "response"]
    /\ UNCHANGED <<client, wire, calls, rtVars, rd, sr>>
    /\ UNCHANGED tcpVars

\* ------------------------------------------------------ server_request_file
\* server_request_file(client, file) is called by the handler: 411 without a
\* content length, else http_read_file(client->http, file, content_length)
\* starts with the declared length (0: read all content)
server_request_file ==
    /\ sc.pc = "handler"
    /\ rd.pc = "idle"
    /\ IF NoLengthGiven(request)
         THEN rd' = [rd EXCEPT !.pc = "done", !.ret = 411]
         ELSE rd' = [rd EXCEPT !.pc = "read",
                               !.declared = request.content_length # 0,
                               !.remaining = request.content_length]
    /\ UNCHANGED <<client, wire, sc, calls, rtVars, st, sr>>
    /\ UNCHANGED tcpVars

\* one round of http_read_file: done when the declared length has been read;
\* else one http_read_raw into the buffer, whose bytes go to the file
http_read_file ==
    /\ rd.pc = "read"
    /\ IF rd.declared /\ rd.remaining = 0
         THEN rd' = [rd EXCEPT !.pc = "done", !.ret = 0]
         ELSE \E got \in 1..ReadBufSize, fail \in BOOLEAN, written \in BOOLEAN :
                LET r == http_read_raw(rd, ReadBufSize, got, fail) IN
                  rd' = IF r.ret # 0
                          THEN [r.rd EXCEPT !.pc = "done", !.ret = r.ret]
                        ELSE IF ~written
                          THEN [r.rd EXCEPT !.pc = "done", !.ret = -1]
                        ELSE [r.rd EXCEPT !.delivered = @ + r.got]
    /\ UNCHANGED <<client, wire, sc, calls, rtVars, st, sr>>
    /\ UNCHANGED tcpVars

\* ------------------------------------------------------- server_run steps
\* if ((sock = accept(server->sock, ...)) < 0) return -1;
server_run_accept ==
    /\ sr.pc = "accept"
    /\ \/ sr' = [sr EXCEPT !.pc = "done", !.ret = <<-1>>]
       \/ sr' = [sr EXCEPT !.pc = "http", !.sock = <<AcceptedSock>>, !.accepted = <<AcceptedSock>>,
                           !.open = {AcceptedSock}]
    /\ UNCHANGED <<client, wire, sc, calls, rtVars, st, rd>>
    /\ UNCHANGED tcpVars

\* if ((err = http_create(&client.http, sock))) { sock = -1; goto error; }
server_run_http_create ==
    /\ sr.pc = "http"
    /\ \E ok \in BOOLEAN :
         LET h == http_create(sr.open, ok) IN
           IF h.ret # 0
             THEN /\ sr' = [sr EXCEPT !.pc = "error", !.err = h.ret, !.sock = NULL,
                                      !.http = h.http, !.open = h.open]
                  /\ UNCHANGED sc
             ELSE /\ sr' = [sr EXCEPT !.pc = "client", !.err = h.ret, !.http = h.http,
                                      !.open = h.open, !.engines = {h.http[1]}]
                  /\ sc' = [sc EXCEPT !.pc = "request"]
    /\ UNCHANGED <<client, wire, calls, rtVars, st, rd>>
    /\ UNCHANGED tcpVars

\* if ((err = server_client(server, &client))) goto error;  server_client has returned
server_run_client ==
    /\ sr.pc = "client"
    /\ sc.pc = "done"
    /\ sr' = [sr EXCEPT !.pc = "error", !.err = sc.ret]
    /\ UNCHANGED <<client, wire, sc, calls, rtVars, st, rd>>
    /\ UNCHANGED tcpVars

\* error: if (client.http) http_destroy(client.http); if (sock >= 0) close(sock); return 0;
server_run_cleanup ==
    /\ sr.pc = "error"
    /\ sr' = [sr EXCEPT !.pc = "done",
                        !.ret = <<0>>,
                        !.engines = IF sr.http # NULL THEN @ \ {sr.http[1]} ELSE @,
                        !.destroys = IF sr.http # NULL THEN @ + 1 ELSE @,
                        !.open = IF sr.sock # NULL THEN @ \ {sr.sock[1]} ELSE @,
                        !.closes = IF sr.sock # NULL THEN @ + 1 ELSE @]
    /\ UNCHANGED <<client, wire, sc, calls, rtVars, st, rd>>
    /\ UNCHANGED tcpVars

\* ------------------------------------------------------- specifications
Init == InitTcp /\ InitServer

\* the connector: one call of tcp_connect
Next ==
    \/ tcp_connect_getaddrinfo
    \/ tcp_connect_loop
    \/ tcp_connect_result
    \/ tcp_connect_return
    \/ async_socket
    \/ async_nonblocking
    \/ async_event_create
    \/ async_connect
    \/ async_yield
    \/ event_resume
    \/ async_sock_error
    \/ async_check
    \/ async_cleanup

Spec == Init /\ [][Next]_vars

\* the steps of the connector task itself: everything but the reactor's resume
NextProgram ==
    \/ tcp_connect_getaddrinfo
    \/ tcp_connect_loop
    \/ tcp_connect_result
    \/ tcp_connect_return
    \/ async_socket
    \/ async_nonblocking
    \/ async_event_create
    \/ async_connect
    \/ async_yield
    \/ async_sock_error
    \/ async_check
    \/ async_cleanup

\* the connector under fair scheduling: the running task keeps taking steps, and
\* the reactor eventually resumes a task suspended in event_yield
SpecFair == Init /\ [][Next]_vars /\ WF_vars(NextProgram) /\ WF_vars(event_resume)

\* the server: one call of server_client on an accepted connection
NextServer ==
    \/ server_client_request
    \/ server_client_lookup
    \/ handler_server_response
    \/ handler_server_response_header
    \/ handler_server_response_headers
    \/ handler_server_response_file
    \/ handler_return
    \/ server_client_response
    \/ server_client_headers

\* a server on which one handler is registered: server_static_add(s, server, "/a")
InitServed ==
    /\ InitTcp
    /\ InitConnection
    /\ handlers = StaticHandlers
    /\ registered = StaticHandlers

SpecServer == InitServed /\ [][NextServer]_vars

\* the router: handlers are registered, then one connection is served by a
\* handler that sends nothing itself
NextRouter ==
    \/ server_add_handler
    \/ server_client_request
    \/ server_client_lookup
    \/ handler_return
    \/ server_client_response
    \/ server_client_headers

SpecRouter == Init /\ [][NextRouter]_vars

\* server_static_add(s, server, "/"): the static handler serves every GET
RootHandlers == <<[method |-> GET, path |-> <<"/">>, handler |-> "static"]>>

\* a server whose only handler is the static handler
InitStatic ==
    /\ InitTcp
    /\ InitConnection
    /\ handlers = RootHandlers
    /\ registered = RootHandlers

\* the static server: one call of server_client, the handler is server_static_request
NextStatic ==
    \/ server_client_request
    \/ server_client_lookup
    \/ server_static_request
    \/ static_request_header
    \/ static_request_lookup
    \/ static_request_file
    \/ static_request_dir
    \/ static_request_other
    \/ static_request_return
    \/ server_client_response
    \/ server_client_headers

SpecStatic == InitStatic /\ [][NextStatic]_vars

\* a connection whose PUT request was routed to a handler that has read the
\* headers, a Content-Length of 0..MaxBody among them or none; the peer sends
\* up to MaxBody + 1 bytes of body and closes
InitBody ==
    /\ InitTcp
    /\ client = InitClient
    /\ wire = << >>
    /\ calls = << >>
    /\ handlers = <<[method |-> PUT, path |-> <<"/">>, handler |-> "upload"]>>
    /\ registered = handlers
    /\ sc = [pc |-> "handler", err |-> 0, lerr |-> 0, status |-> 0, handler |-> <<"upload">>, ret |-> 0,
             req |-> <<[method |-> PUT, path |-> <<"/", "a">>, ret |-> 0]>>, lookup |-> <<0>>]
    /\ \E length \in 0..MaxBody :
         request = [method |-> strncpy(PUT, HTTP_METHOD_MAX),
                    path |-> strncpy(<<"/", "a">>, HTTP_PATH_MAX),
                    content_length |-> length]
    /\ st = IdleStatic
    /\ \E sent \in 0..(MaxBody + 1) : rd = [IdleReader EXCEPT !.avail = sent]
    /\ sr = ServingRun

\* the handler reads the request body with server_request_file
NextBody ==
    \/ server_request_file
    \/ http_read_file

SpecBody == InitBody /\ [][NextBody]_vars

\* a listening server with one handler registered, about to call server_run
InitRun ==
    /\ InitTcp
    /\ client = InitClient
    /\ wire = << >>
    /\ calls = << >>
    /\ request = InitRequest
    /\ sc = IdleClient
    /\ st = IdleStatic
    /\ rd = IdleReader
    /\ sr = EntryRun
    /\ handlers = StaticHandlers
    /\ registered = StaticHandlers

\* one call of server_run; the handler sends nothing itself
NextRun ==
    \/ server_run_accept
    \/ server_run_http_create
    \/ server_client_request
    \/ server_client_lookup
    \/ handler_return
    \/ server_client_response
    \/ server_client_headers
    \/ server_run_client
    \/ server_run_cleanup

SpecRun == InitRun /\ [][NextRun]_vars

\* ----------------------------------------------------------------- claims
\* every frame of tcp_connect_async seen so far: the returned ones and the running one
Frames == {attempts[k] : k \in 1..Len(attempts)} \cup (IF ta.pc = "idle" THEN {} ELSE {ta})

\* C1: when the attempts on the first M candidates fail and the attempt on
\* candidate M+1 succeeds, tcp_connect has made exactly M+1 calls of
\* tcp_connect_async (on candidates 1..M+1, in order), makes no further call,
\* *sockp holds the socket of candidate M+1, and tcp_connect returns 0.
C1_FirstSuccessWins ==
    \A k \in 1..Len(attempts) :
        (attempts[k].ret = 0 /\ \A j \in 1..(k - 1) : attempts[j].ret # 0) =>
            /\ Len(started) = k
            /\ Len(attempts) = k
            /\ \A j \in 1..k : started[j] = j /\ attempts[j].addr = j
            /\ attempts[k].sock # NULL
            /\ sockp = attempts[k].sock
            /\ tc.pc \in {"return", "done"}
            /\ tc.err = 0
            /\ tc.pc = "done" => tc.ret = 0

\* C1 witness: three candidates, the first fails, the second connects, tcp_connect is done
C1_Witness ==
    /\ tc.pc = "done"
    /\ addrs = 3
    /\ Len(attempts) = 2
    /\ attempts[1].ret # 0
    /\ attempts[2].ret = 0
    /\ tc.ret = 0

\* C2: tcp_connect returns 0 only if some attempt reached CONNECTED; on an
\* empty candidate list it returns the pre-set non-zero error, and when every
\* candidate failed it returns the error of the last candidate attempted.
C2_NoFalseSuccess ==
    tc.pc = "done" =>
        /\ tc.ret = 0 => \E k \in 1..Len(attempts) : attempts[k].connected
        /\ (tc.gai = <<0>> /\ addrs = 0) => (tc.ret = 1 /\ attempts = << >>)
        /\ (tc.gai = <<0>> /\ addrs > 0 /\ \A k \in 1..Len(attempts) : attempts[k].ret # 0) =>
                /\ Len(attempts) = addrs
                /\ tc.ret = attempts[addrs].ret
                /\ tc.ret # 0

\* C2 witness: two candidates, both fail, the second with ECONNREFUSED after a resume
C2_Witness ==
    /\ tc.pc = "done"
    /\ addrs = 2
    /\ Len(attempts) = 2
    /\ attempts[1].ret = 1
    /\ attempts[2].ret = 111
    /\ tc.ret = 111

\* C2 witness of the empty list
C2_WitnessEmpty == tc.pc = "done" /\ tc.gai = <<0>> /\ addrs = 0 /\ tc.ret = 1

\* C3: when tcp_connect_async returns, the socket it opened is closed if it
\* returns a failure and open if it returns success.
C3_SocketClosedOnFailure ==
    (ta.pc = "return" /\ ta.sock # NULL) => (ta.sock[1] \in openSocks <=> ta.ret = 0)

\* C4: whenever tcp_connect_async has returned, the event it created (if any)
\* has been destroyed exactly once and no event is registered any more.
C4_EventReleased ==
    /\ ta.pc \in {"return", "idle"} => liveEvents = {}
    /\ \A f \in Frames :
        f.pc = "return" => destroyed[f.addr] = (IF f.event # NULL THEN 1 ELSE 0)
    /\ \A a \in DOMAIN destroyed : destroyed[a] <= 1

\* C4 witness: an attempt that registered an event, was suspended and failed, has returned
C4_Witness ==
    /\ ta.pc = "return"
    /\ ta.event # NULL
    /\ ta.yields = 1
    /\ ta.ret # 0
    /\ destroyed[ta.addr] = 1

\* C5 (as stated): after event_create failed for a candidate, no later
\* candidate is attempted.
C5_RegistrationFailureAborts ==
    \A k \in 1..Len(attempts) : attempts[k].evfail => Len(started) = k

\* C5 (amended): a failure of event_create fails only that candidate's attempt
\* (no connect is issued for it and the attempt returns the error);
\* tcp_connect goes on to the next candidate when there is one, and returns
\* that error only when the candidate was the last of the list.
C5_RegistrationFailureSkipsCandidate ==
    \A k \in 1..Len(attempts) :
        attempts[k].evfail =>
            /\ attempts[k].ret # 0
            /\ attempts[k].connect = NULL
            /\ (k < addrs /\ tc.pc \in {"return", "done"}) => Len(started) > k
            /\ (k = addrs /\ tc.pc = "done") => tc.ret = attempts[k].ret

\* C5 witness: event_create failed for candidate 1, candidate 2 was attempted and connected
C5_Witness ==
    /\ tc.pc = "done"
    /\ Len(attempts) = 2
    /\ attempts[1].evfail
    /\ attempts[2].ret = 0
    /\ tc.ret = 0

\* C6: candidates are attempted in list order, one at a time: attempt k+1
\* starts only after attempt k has returned a failure, at most one attempt is
\* running, and only the running attempt can be registered with the reactor.
C6_SequentialInOrder ==
    /\ \A i \in 1..Len(started) : started[i] = i
    /\ Len(started) \in {Len(attempts), Len(attempts) + 1}
    /\ (ta.pc = "idle") <=> (Len(started) = Len(attempts))
    /\ \A i \in 1..(Len(started) - 1) : attempts[i].pc = "return" /\ attempts[i].ret # 0
    /\ ta.pc # "idle" => ta.addr = started[Len(started)]
    /\ liveEvents \subseteq (IF ta.pc = "idle" THEN {} ELSE {ta.addr})

\* C6 witness: the third candidate is suspended after the first two have failed
C6_Witness ==
    /\ Len(started) = 3
    /\ Len(attempts) = 2
    /\ ta.pc = "suspended"
    /\ liveEvents = {3}

\* C7: an attempt suspends only with a reactor and a connect in progress, on
\* EVENT_WRITE and at most once; after a resume it returns 0 (CONNECTED) iff
\* the pending socket error read is zero, and after a non-zero pending error
\* tcp_connect goes on to the next candidate.
C7_SuspendOnlyOnPendingConnect ==
    /\ \A f \in Frames :
        /\ f.yields <= 1
        /\ (f.pc = "suspended" \/ f.yields > 0 \/ f.mode # NULL) =>
                /\ event_main
                /\ f.event # NULL
                /\ f.connect # NULL
                /\ f.connect[1] > 0
                /\ f.mode = <<"EVENT_WRITE">>
        /\ f.resumed => f.yields = 1
        /\ (f.pc = "return" /\ f.resumed) =>
                /\ f.soerr # NULL
                /\ f.ret = 0 <=> f.soerr = <<0>>
                /\ f.connected <=> f.soerr = <<0>>
    /\ \A k \in 1..Len(attempts) :
        (attempts[k].resumed /\ attempts[k].soerr # <<0>> /\ k < addrs
            /\ tc.pc \in {"return", "done"}) => Len(started) > k

\* C7 witness: candidate 1 was resumed with ECONNREFUSED pending, candidate 2 is being attempted
C7_Witness ==
    /\ Len(attempts) = 1
    /\ attempts[1].resumed
    /\ attempts[1].soerr = <<111>>
    /\ attempts[1].ret = 111
    /\ Len(started) = 2

\* number of lines of the given kind on the wire
CountLines(w, kind) == Cardinality({i \in 1..Len(w) : w[i].line = kind})

\* C8: at most one status line is written on a connection: server_response
\* called when a status is already recorded returns -1 and writes nothing, and
\* server_client never calls server_response once the handler has sent a status.
C8_OneStatus ==
    /\ CountLines(wire, "status") <= 1
    /\ \A i \in 1..Len(calls) :
        LET c == calls[i] IN
          /\ (c.op = "server_response" /\ c.pre.status # 0) =>
                (c.ret = -1 /\ c.after = c.before)
          /\ (c.op = "server_response" /\ c.by = "server_client") => c.pre.status = 0

\* C8 witness: the handler sent 200, had a second server_response refused and
\* returned 404; server_client is done and the wire carries the one status line
C8_Witness ==
    /\ sc.pc = "done"
    /\ sc.status = 404
    /\ client.status = 200
    /\ CountLines(wire, "status") = 1
    /\ \E i \in 1..Len(calls) :
        calls[i].op = "server_response" /\ calls[i].pre.status # 0 /\ calls[i].ret = -1

\* no write to the connection has failed so far
NoWriteFailed == \A i \in 1..Len(calls) : ~calls[i].ioerr

\* C9: the wire is ordered status line, header lines, end-of-headers, body:
\* no header line and no end-of-headers line before the status line, no
\* header line after the end-of-headers line, no body before the
\* end-of-headers line; a call that would break the order returns -1 and
\* writes nothing.  Stated for the executions in which no write has failed.
C9_WireOrder ==
  NoWriteFailed =>
    /\ \A i \in 1..Len(wire) :
        /\ wire[i].line \in {"header", "headers"} =>
                \E j \in 1..(i - 1) : wire[j].line = "status"
        /\ wire[i].line = "header" =>
                \A j \in 1..(i - 1) : wire[j].line # "headers"
        /\ wire[i].line = "body" =>
                \E j \in 1..(i - 1) : wire[j].line = "headers"
        /\ wire[i].line = "status" =>
                \A j \in 1..(i - 1) : wire[j].line = "status"
    /\ \A i \in 1..Len(calls) :
        LET c == calls[i] IN
          (c.op \in {"server_response_header", "server_response_headers", "server_response_file"}
              /\ c.pre.status = 0) => (c.ret = -1 /\ c.after = c.before)

\* C10: the end-of-headers line is never written a second time, and when
\* server_client has returned it has been written exactly once.  Stated for
\* the executions in which no write has failed.
C10_HeadersEndOnce ==
  NoWriteFailed =>
    /\ CountLines(wire, "headers") <= 1
    /\ sc.pc = "done" => CountLines(wire, "headers") = 1

\* the handler has sent a status: it called server_response when none was recorded
HandlerSent ==
    \E i \in 1..Len(calls) :
        calls[i].by = "handler" /\ calls[i].op = "server_response" /\ calls[i].pre.status = 0

\* C11: when server_client has returned a status has been sent or attempted:
\* if nothing was sent before the error label, 500 for a negative err, 500 for
\* err = 0, and err itself for a positive err; with no write failure that
\* status line is on the wire.
C11_StatusAlwaysSent ==
    sc.pc = "done" =>
        /\ client.status # 0
        /\ ~HandlerSent =>
              /\ sc.lerr < 0 => client.status = 500
              /\ sc.lerr = 0 => client.status = 500
              /\ sc.lerr > 0 => client.status = sc.lerr
              /\ \E i \in 1..Len(calls) :
                    /\ calls[i].by = "server_client"
                    /\ calls[i].op = "server_response"
                    /\ calls[i].pre.status = 0
              /\ NoWriteFailed =>
                    \E i \in 1..Len(wire) : wire[i] = Line("status", client.status)

\* C11 witness: the handler was called, sent nothing and returned 0; server_client
\* has returned after writing the status line 500
C11_Witness ==
    /\ sc.pc = "done"
    /\ sc.handler # NULL
    /\ sc.lerr = 0
    /\ ~HandlerSent
    /\ client.status = 500
    /\ wire # << >>
    /\ wire[1] = Line("status", 500)

\* C19: with every suspension eventually resumed, tcp_connect terminates, and
\* it attempts each candidate at most once; while an attempt is suspended the
\* task has no step of its own (no timeout): only the reactor's resume ends the wait.
C19_TerminatesWhenResumed ==
    /\ <>(tc.pc = "done")
    /\ [](\A i, j \in 1..Len(started) : started[i] = started[j] => i = j)
    /\ [](Len(started) <= addrs)
    /\ [](ta.pc = "suspended" => ~ENABLED NextProgram)

\* C19 witness: three candidates, each attempted once and resumed, tcp_connect has returned
C19_Witness ==
    /\ tc.pc = "done"
    /\ addrs = 3
    /\ Len(attempts) = 3
    /\ \A k \in 1..3 : attempts[k].resumed

\* C20: *sockp is written only by an attempt that returns success, and when
\* tcp_connect returns 0 the socket in *sockp is the one socket still open.
C20_SockpOnlyOnSuccess ==
    /\ \A f \in Frames : (f.pc = "return" /\ f.ret # 0) => ~f.wrote
    /\ sockp # NULL => \E f \in Frames : f.wrote /\ f.err = 0 /\ f.sock = sockp
    /\ (tc.pc = "done" /\ tc.ret # 0) => sockp = NULL
    /\ (tc.pc = "done" /\ tc.ret = 0) => (sockp # NULL /\ openSocks = {sockp[1]})

\* a is a prefix of b
IsPrefix(a, b) == Len(a) <= Len(b) /\ SubSeq(b, 1, Len(a)) = a

\* a registration matches a request: method unset or equal, path unset or a prefix
Matches(h, method, path) ==
    /\ (h.method = NULL \/ h.method = method)
    /\ (h.path = NULL \/ IsPrefix(h.path, path))

\* the registrations, in call order, that match the request server_request read
Matching ==
    {i \in 1..Len(registered) : Matches(registered[i], sc.req[1].method, sc.req[1].path)}

\* C12: the lookup returns the handler of the earliest registration matching
\* the request (method unset or equal, path unset or a prefix of the request
\* path); with no matching registration it returns 404, no handler is
\* invoked and server_client answers with status 404.
C12_FirstMatchWins ==
    /\ handlers = registered
    /\ sc.handler # NULL => sc.lookup = <<0>>
    /\ sc.lookup # NULL =>
          /\ sc.lookup[1] \in LookupResults
          /\ Matching = {} =>
                /\ sc.lookup = <<404>>
                /\ sc.handler = NULL
                /\ sc.pc # "handler"
                /\ sc.pc = "done" =>
                      /\ client.status = 404
                      /\ NoWriteFailed => wire = <<Line("status", 404), Line("headers", 0)>>
          /\ Matching # {} =>
                LET first == CHOOSE i \in Matching : \A j \in Matching : i <= j IN
                  /\ sc.lookup = <<0>>
                  /\ sc.handler = <<registered[first].handler>>

\* C12 witness: two registrations match GET /ab, the first for handler B on
\* path /a, the second for handler A on any path; handler B has been invoked
C12_Witness ==
    /\ Len(registered) = 2
    /\ registered[1] = [method |-> NULL, path |-> <<"/", "a">>, handler |-> "B"]
    /\ registered[2] = [method |-> GET, path |-> NULL, handler |-> "A"]
    /\ sc.req # NULL
    /\ sc.req[1].method = GET
    /\ sc.req[1].path = <<"/", "a", "b">>
    /\ sc.handler = <<"B">>
    /\ sc.pc = "done"

\* C12 witness of the fallback: the only registration is for /ab, the request is GET /a
C12_WitnessNotFound ==
    /\ Len(registered) = 1
    /\ registered[1].path = <<"/", "a", "b">>
    /\ sc.req # NULL
    /\ sc.req[1].path = <<"/", "a">>
    /\ sc.lookup = <<404>>
    /\ sc.pc = "done"
    /\ client.status = 404

\* C13: a method of HTTP_METHOD_MAX characters or more makes server_request
\* return 400 with both buffers untouched; a path of HTTP_PATH_MAX characters
\* or more makes it return 400 with request_path untouched (request_method
\* then already holds the method); when it returns 0 both buffers hold the
\* complete, NUL-terminated method and path within their sizes.
C13_RequestBounded ==
    /\ request.method.nul /\ request.method.written <= HTTP_METHOD_MAX
    /\ request.path.nul /\ request.path.written <= HTTP_PATH_MAX
    /\ (sc.req # NULL /\ sc.req[1].method # NULL) =>
          LET q == sc.req[1] IN
            /\ Len(q.method) >= HTTP_METHOD_MAX =>
                  (q.ret = 400 /\ request.method = ZeroBuf /\ request.path = ZeroBuf)
            /\ Len(q.path) >= HTTP_PATH_MAX =>
                  (q.ret = 400 /\ request.path = ZeroBuf)
            /\ q.ret = 400 <=> (Len(q.method) >= HTTP_METHOD_MAX \/ Len(q.path) >= HTTP_PATH_MAX)
            /\ q.ret = 0 =>
                  /\ request.method.str = q.method
                  /\ Len(request.method.str) + 1 <= HTTP_METHOD_MAX
                  /\ request.path.str = q.path
                  /\ Len(request.path.str) + 1 <= HTTP_PATH_MAX

\* C13 witness: a method of exactly HTTP_METHOD_MAX characters was read and refused
C13_Witness ==
    /\ sc.req # NULL
    /\ sc.req[1].method # NULL
    /\ Len(sc.req[1].method) = HTTP_METHOD_MAX
    /\ sc.req[1].ret = 400
    /\ request = InitRequest
    /\ sc.pc = "done"
    /\ client.status = 400

\* C13 witness of the longest accepted request: 63 and 1023 characters
C13_WitnessLongest ==
    /\ sc.req # NULL
    /\ sc.req[1].method # NULL
    /\ Len(sc.req[1].method) = HTTP_METHOD_MAX - 1
    /\ Len(sc.req[1].path) = HTTP_PATH_MAX - 1
    /\ sc.req[1].ret = 0
    /\ request.path.str = sc.req[1].path

\* ------------------------------------------------------- the static handler
\* the canonical path p is the directory root or lies below it
Inside(root, p) ==
    \/ p = root
    \/ Len(p) > Len(root) /\ SubSeq(p, 1, Len(root) + 1) = root \o <<"/">>

\* a line of file content or of a directory listing
IsContent(l) == l.line \in {"body", "listing"}

\* C14: when the canonical target of the request path lies outside the served
\* root (a sibling directory whose name starts with the root's name included),
\* server_static_lookup returns 403, hands no descriptor to the caller and
\* keeps none open, and no 200 status, file content or listing is sent
C14_OutsideRootForbidden ==
    st.lookup # NULL =>
      LET l == st.lookup[1] IN
        (l.target # NULL /\ ~Inside(StaticServer.realpath, l.target)) =>
          /\ l.ret = 403
          /\ l.fd = NULL
          /\ st.fd = NULL
          /\ l.opened => l.closed
          /\ \A i \in 1..Len(wire) : ~IsContent(wire[i]) /\ wire[i] # Line("status", 200)

\* the handler has called server_static_dir for a path without a trailing '/'
RedirectCase ==
    /\ \E k \in 1..Len(calls) : calls[k].op = "server_static_dir"
    /\ CharAt(request.path.str, Len(request.path.str)) # "/"

\* C15: a directory asked for by a path that does not end in '/' is answered
\* with a redirect to path + "/" and nothing else: no 200 status, no
\* Content-Type header and no listing is written
C15_DirectoryRedirect ==
    RedirectCase =>
      /\ st.lookup[1].type = "dir"
      /\ \A i \in 1..Len(wire) :
           /\ ~IsContent(wire[i])
           /\ wire[i] # Line("status", 200)
           /\ wire[i].name # "Content-Type"
      /\ \A k \in 1..Len(calls) :
           (calls[k].op = "server_static_dir" /\ ~calls[k].ioerr) =>
             /\ calls[k].ret = 0
             /\ calls[k].after = <<Line("status", 301),
                                   HeaderLine("Location", request.path.str \o <<"/">>)>>
      /\ (sc.pc = "done" /\ NoWriteFailed) =>
           wire = <<Line("status", 301),
                    HeaderLine("Location", request.path.str \o <<"/">>),
                    Line("headers", 0)>>

\* the request for the directory /a has been answered with the redirect to /a/
C15_Witness ==
    /\ RedirectCase
    /\ sc.pc = "done"
    /\ request.path.str = <<"/", "a">>
    /\ wire = <<Line("status", 301), HeaderLine("Location", <<"/", "a", "/">>), Line("headers", 0)>>

\* C16: a positive status returned by server_request or by
\* server_request_header while the static handler serves the request is the
\* status sent, and no file and no listing is served
C16_RequestErrorStatusSent ==
    (sc.pc = "done" /\ NoWriteFailed) =>
      /\ sc.req[1].ret > 0 =>
           /\ wire = <<Line("status", sc.req[1].ret), Line("headers", 0)>>
           /\ st.pc = "idle"
      /\ \A k \in 1..Len(st.hdrs) :
           st.hdrs[k].ret > 1 =>
             /\ client.status = st.hdrs[k].ret
             /\ \A i \in 1..Len(wire) : ~IsContent(wire[i])

\* a physical line that starts with whitespace
IsFold(input) == input.ok /\ input.text # << >> /\ input.text[1] \in Space

\* a physical line that carries a header name
IsNamed(input) == input.ok /\ input.text # << >> /\ input.text[1] \notin Space

\* C18: for a folded line at any position of the header section,
\* http_read_header returns 0 with *headerp the name reference returned for
\* the header line it continues, never NULL, and *valuep the trimmed text of
\* the line; for a blank line it returns 1
C18_FoldKeepsName ==
    \A k \in 1..Len(st.hdrs) :
      LET e == st.hdrs[k] IN
        /\ (e.input.ok /\ e.input.text = << >>) => e.read = 1
        /\ IsFold(e.input) =>
             /\ e.read = 0
             /\ e.value = Trim(e.input.text)
             /\ e.header # NULL
             /\ \E j \in 1..(k - 1) :
                  /\ IsNamed(st.hdrs[j].input)
                  /\ \A x \in (j + 1)..(k - 1) : IsFold(st.hdrs[x].input)
                  /\ e.header = st.hdrs[j].header
                  /\ e.header = NameRef(j, e.header[1].name)

\* --------------------------------------------------------- the request body
\* C17: while a body of declared length L is read, the remaining length is
\* never negative, every read stores at most min(buffer size, remaining)
\* bytes, at most L bytes are delivered in total, and a read made when
\* nothing remains or the stream has closed returns the EOF value 1, not an error
C17_ReadsClipped ==
    /\ rd.remaining >= 0
    /\ rd.avail >= 0
    /\ rd.delivered <= request.content_length
    /\ rd.pc = "read" => rd.remaining + rd.delivered <= request.content_length
    /\ \A k \in 1..Len(rd.reads) :
         LET e == rd.reads[k] IN
           /\ e.got <= Min(e.size, e.remaining)
           /\ e.remaining <= request.content_length
           /\ (~e.fail /\ (e.remaining = 0 \/ e.avail = 0)) => (e.ret = 1 /\ e.got = 0)
           /\ e.ret < 0 => e.fail
    /\ (rd.pc = "done" /\ rd.ret = 0) => rd.delivered = request.content_length

\* a body of MaxBody bytes has been read in more than one read, up to its declared length
C17_Witness ==
    /\ rd.pc = "done"
    /\ rd.ret = 0
    /\ request.content_length = MaxBody
    /\ rd.delivered = MaxBody
    /\ Len(rd.reads) > 1
    /\ rd.avail > 0

\* the peer closed before the declared length was sent: the last read returned 1
C17_WitnessClosed ==
    /\ rd.pc = "done"
    /\ rd.ret = 1
    /\ rd.remaining > 0
    /\ rd.delivered > 0
    /\ rd.reads[Len(rd.reads)].ret = 1

\* -------------------------------------------------- the static descriptor
\* C21: the descriptor opened for the request target is released exactly
\* once on every path: server_static_lookup closes it on its error returns
\* and hands it over only with 0, and server_static_request then closes it
\* once, through fclose, closedir or close; none stays open, none is closed twice
C21_DescriptorReleasedOnce ==
    /\ st.opened <= 1
    /\ st.closed <= st.opened
    /\ st.lookup # NULL =>
         LET l == st.lookup[1] IN
           /\ l.ret # 0 => (l.fd = NULL /\ (l.opened => l.closed))
           /\ l.ret = 0 => (l.fd # NULL /\ l.opened /\ ~l.closed)
    /\ st.fd # NULL => (st.opened = 1 /\ st.closed = 0)
    /\ st.pc = "check" => st.fd # NULL
    /\ st.pc = "done" => (st.closed = st.opened /\ st.fd = NULL)
    /\ sc.pc \in {"response", "headers", "done"} => st.closed = st.opened

\* the handler has returned after wrapping the descriptor of a regular file
\* and sending the file: the descriptor was opened once and closed once
C21_Witness ==
    /\ st.pc = "done"
    /\ st.lookup # NULL
    /\ st.lookup[1].type = "file"
    /\ \E k \in 1..Len(calls) : calls[k].op = "server_static_file"
    /\ st.opened = 1
    /\ st.closed = 1

\* the handler has returned after fdopen failed: close(fd) at the error label
C21_WitnessWrapFailed ==
    /\ st.pc = "done"
    /\ st.lookup # NULL
    /\ st.lookup[1].ret = 0
    /\ st.ret = -1
    /\ calls = << >>
    /\ st.opened = 1
    /\ st.closed = 1

\* -------------------------------------------------------------- server_run
\* C22: for every accepted connection server_run has, when it returns,
\* closed the accepted socket once and destroyed the http instance if one
\* was created, on every path (http_create failing and server_client failing
\* included); it accepts one connection per call and returns 0
C22_ConnectionReleased ==
    /\ sr.closes <= 1
    /\ sr.destroys <= 1
    /\ sr.engines # {} => sr.open # {}
    /\ (sr.pc = "done" /\ sr.accepted # NULL) =>
         /\ sr.ret = <<0>>
         /\ sr.open = {}
         /\ sr.closes = 1
         /\ sr.engines = {}
         /\ sr.http # NULL => sr.destroys = 1

====
